---- MODULE Spec2Model ----
(***************************************************************************)
(* Model of the pitch-detection hook (src/src/hooks/useAudioDetector.ts)   *)
(* and of the note classifier (src/src/lib/ukuleleConfig.ts).              *)
(*                                                                         *)
(* Units.  Frequencies of the hook are integers in 1/100 Hz, RMS volumes   *)
(* are integers in 1/10000, qualities and thresholds are integers in       *)
(* 1/100.  A product with a decimal constant of the source (0.995, 0.18,   *)
(* 1.3 ...) is the integer product with the scaled constant; a quotient is *)
(* rounded down.  Frequencies of the classifier are pitches: the integer   *)
(* cc stands for the frequency C0 * 2^(cc/120000), so that                 *)
(* 1200*log2(f/C0) is cc/100 cents, and 12*log2(f/C0) is cc/10000.         *)
(***************************************************************************)
EXTENDS Integers, Sequences, FiniteSets, TLC

VARIABLES
  state,              \* useState<AudioDetectorState>: isListening, frequency, volume, error
  hasPermission,      \* useState<boolean | null>: "null", "true", "false"
  audioContextRef,    \* 0 = null, else the id of an AudioContext
  analyserRef,        \* FALSE = null
  streamRef,          \* 0 = null, else the id of a MediaStream
  animationFrameRef,  \* 0 = null, else a requestAnimationFrame handle
  bufferRef,          \* FALSE = null (bufferRef, processedRef)
  freqDataRef,        \* FALSE = null
  smoothedFreqRef,
  lastFreqsRef,
  missesRef,
  pitchOptsRef,
  liveStreams,        \* streams acquired by getUserMedia whose tracks are not stopped
  openContexts,       \* AudioContexts constructed and not closed
  scheduled,          \* requestAnimationFrame handles whose callback is pending
  pendingStarts,      \* startListening calls suspended at await getUserMedia
  lastOp,             \* the handler that ran last
  raised,             \* the handler that ran last let an exception escape
  noStartSinceStop,   \* stopListening has returned and startListening was not called since
  accepts,            \* frames accepted since the hook was mounted
  resumes,            \* frames accepted while a hold was decaying the smoothed value
  last,               \* the last frame: the estimate it accepted (-1 if none), the frequency it
                      \* pushed (-1 if none), the smoothed value and the history it found,
                      \* whether it was loud with a soft estimate, and how many such frames
                      \* in a row were not accepted
  detectedFrequency,  \* classifier: the input frequency
  expectedFrequency,  \* classifier: the target frequency
  toleranceCents,     \* classifier: the tolerance
  verdict,            \* classifier: result of isNoteMatch
  noteInfo,           \* classifier: result of getNoteFromFrequency
  chordArgs,          \* chord practice: positions, practiceOn, isListening, ukuleleType
  statuses,           \* chord practice: result of noteStatuses
  searchArgs,         \* position search: ukuleleType, maxFret
  found,              \* position search: result of findMatchingPosition
  block,              \* signal: the sample block handed to preprocessBuffer
  analysis,           \* signal: the RMS of the block and the result of yinPitchDetailed
  spectrumData,       \* signal: the dB spectrum read by fftPeakFrequency
  peak,               \* signal: the result of fftPeakFrequency
  profile,            \* signal: a CMND array with its sample rate and configuration
  selection,          \* signal: the lag chosen in that array and the estimate made at it
  policyArgs,         \* accept policy: configuration, prior smoothed value, frame
  decision,           \* accept policy: the estimate after the fallback, the accepted frequency
  dbPromise,          \* cifra store: "null", "resolved" or "rejected"
  idbStore,           \* cifra store: the object store 'cifras' of IndexedDB, by song id
  localStorage,       \* cifra store: the items 'ukulele-cifra-<id>' of localStorage, by song id
  cifraCall           \* cifra store: the last call of the store, its arguments and outcome

hookVars == <<state, hasPermission, audioContextRef, analyserRef, streamRef,
              animationFrameRef, bufferRef, freqDataRef, smoothedFreqRef,
              lastFreqsRef, missesRef, pitchOptsRef, liveStreams, openContexts,
              scheduled, pendingStarts, lastOp, raised, noStartSinceStop,
              accepts, resumes, last>>

noteVars == <<detectedFrequency, expectedFrequency, toleranceCents, verdict, noteInfo,
              chordArgs, statuses, searchArgs, found>>

frameVars == <<block, analysis, spectrumData, peak, profile, selection, policyArgs, decision>>

cifraVars == <<dbPromise, idbStore, localStorage, cifraCall>>

vars == <<hookVars, noteVars, frameVars, cifraVars>>

Abs(x) == IF x < 0 THEN -x ELSE x

Min(a, b) == IF a <= b THEN a ELSE b

Max(a, b) == IF a >= b THEN a ELSE b

(***************************************************************************)
(* Bounds of the model.                                                    *)
(***************************************************************************)
MaxPending == 2   \* startListening calls that may be suspended at once

MaxStreams == 2   \* streams that may be live at once

MaxAccepts == 2   \* accepted frames per run of the session model

MaxMisses == 12   \* the miss counter stops growing here in the session model

MaxResumes == 0   \* frames accepted out of a hold, per run

LifeMaxAccepts == 1   \* accepted frames per run of the lifecycle model

LifeMaxMisses == 1    \* the miss counter stops growing here in the lifecycle model

TrackMaxAccepts == 6   \* accepted frames per run of the tracking model

TrackMaxMisses == 1    \* the miss counter stops growing here in the tracking model

(***************************************************************************)
(* Detector configurations.                                                *)
(***************************************************************************)
\* pitchOptsRef's initial value
DefaultOpts ==
  [minFreq |-> 12000, maxFreq |-> 90000, threshold |-> 12, minRms |-> 110,
   minQuality |-> 68, softQuality |-> 55, allowSoftStart |-> FALSE]

\* the options the tuner passes when the E string is locked
TunerOpts ==
  [minFreq |-> 22000, maxFreq |-> 82000, threshold |-> 15, minRms |-> 80,
   minQuality |-> 45, softQuality |-> 35, allowSoftStart |-> TRUE]

NoOpts == [none |-> TRUE]

\* opts?.x ?? pitchOptsRef.current.x, for every field
MergeOpts(opts, cur) == IF opts = NoOpts THEN cur ELSE opts

IdleState == [isListening |-> FALSE, frequency |-> 0, volume |-> 0, error |-> FALSE]

NoFrame ==
  [raw |-> -1, quality |-> 0, prev |-> 0, detected |-> -1, hist |-> <<>>, soft |-> FALSE,
   run |-> 0]

(***************************************************************************)
(* The per-frame step (processAudio).                                      *)
(***************************************************************************)
NoPitch == [freq |-> -1, quality |-> 0]

\* a slip: the primary estimator runs whatever the volume
PrimaryEstimateUngated(volume, cfg, yin) == yin

\* yinPitchDetailed runs only if volume >= minRms
PrimaryEstimate(volume, cfg, yin) ==
  IF volume >= cfg.minRms THEN yin ELSE NoPitch

\* the spectral fallback replaces a missing or weak primary estimate
WithFallback(est, volume, cfg, fft) ==
  IF (est.freq <= 0 \/ est.quality < cfg.softQuality) /\ volume * 10 >= cfg.minRms * 13
    THEN IF fft > 0
           THEN [freq |-> fft, quality |-> Max(est.quality, cfg.softQuality)]
           ELSE est
    ELSE est

\* a slip: the candidates are not sorted, the raw value stays first
ClosestOctaveUnsorted(x, prev) == x

\* candidates [x, x/2, x*2] sorted by distance to prev (a stable sort): the first
ClosestOctave(x, prev) ==
  LET c1 == x
      c2 == x \div 2
      c3 == x * 2
      d(a) == Abs(a - prev)
  IN  IF d(c1) <= d(c2) /\ d(c1) <= d(c3) THEN c1
      ELSE IF d(c2) <= d(c3) THEN c2
      ELSE c3

\* a slip: the bounds of the gate are inclusive
InContinuityGateInclusive(best, prev) ==
  best * 100 >= 86 * prev /\ best * 100 <= 116 * prev

\* ratio > 0.86 && ratio < 1.16, ratio = best / prev
InContinuityGate(best, prev) ==
  best * 100 > 86 * prev /\ best * 100 < 116 * prev

\* a slip: the bootstrap does not look at allowSoftStart
SoftStartInAnyMode(volume, cfg) == volume * 10 >= cfg.minRms * 14

\* a slip: the comparison with minRms * 1.4 is strict
SoftStartAllowedStrict(volume, cfg) == cfg.allowSoftStart /\ volume * 10 > cfg.minRms * 14

\* allowSoftStart && volume >= minRms * 1.4
SoftStartAllowed(volume, cfg) == cfg.allowSoftStart /\ volume * 10 >= cfg.minRms * 14

\* a slip: a confident estimate is also checked against the prior value
DetectGatingHardAccept(est, prev, volume, cfg) ==
  IF est.freq > 0 /\ est.quality >= cfg.softQuality
    THEN IF prev > 0
           THEN LET best == ClosestOctave(est.freq, prev)
                IN  IF InContinuityGate(best, prev) THEN best ELSE -1
           ELSE IF est.quality >= cfg.minQuality \/ SoftStartAllowed(volume, cfg)
                  THEN est.freq
                  ELSE -1
    ELSE -1

\* the accept policy: the accepted frequency, or -1
Detect(est, prev, volume, cfg) ==
  IF est.freq > 0 /\ est.quality >= cfg.minQuality THEN est.freq
  ELSE IF est.freq > 0 /\ est.quality >= cfg.softQuality
    THEN IF prev > 0
           THEN LET best == ClosestOctave(est.freq, prev)
                IN  IF InContinuityGate(best, prev) THEN best ELSE -1
           ELSE IF SoftStartAllowed(volume, cfg)
                  THEN est.freq
                  ELSE -1
    ELSE -1

RECURSIVE Insert(_, _)
Insert(x, s) ==
  IF s = <<>> THEN <<x>>
  ELSE IF x <= Head(s) THEN <<x>> \o s
  ELSE <<Head(s)>> \o Insert(x, Tail(s))

RECURSIVE SortAsc(_)
SortAsc(s) == IF s = <<>> THEN <<>> ELSE Insert(Head(s), SortAsc(Tail(s)))

median(values) ==
  IF Len(values) = 0 THEN 0
  ELSE LET sorted == SortAsc(values)
           mid == Len(sorted) \div 2
       IN  IF Len(sorted) % 2 = 1
             THEN sorted[mid + 1]
             ELSE (sorted[mid] + sorted[mid + 1]) \div 2

\* a slip: the oldest value is never evicted
PushHistoryUnbounded(buf, detected) == Append(buf, detected)

\* buf.push(detected); if (buf.length > 5) buf.shift()
PushHistory(buf, detected) ==
  LET b == Append(buf, detected)
  IN  IF Len(b) > 5 THEN Tail(b) ELSE b

\* a slip: the weights of the previous value and of the new one are swapped
BlendSwapped(prev, stable) ==
  LET isBigJump == prev > 0 /\ (stable * 100 > 118 * prev \/ stable * 100 < 85 * prev)
      alpha == IF isBigJump THEN 8 ELSE 18
  IN  (prev * alpha + stable * (100 - alpha)) \div 100

\* prev * (1 - alpha) + stable * alpha, alpha = 0.08 on a big jump, else 0.18
Blend(prev, stable) ==
  LET isBigJump == prev > 0 /\ (stable * 100 > 118 * prev \/ stable * 100 < 85 * prev)
      alpha == IF isBigJump THEN 8 ELSE 18
  IN  (prev * (100 - alpha) + stable * alpha) \div 100

\* smoothedFreqRef.current *= 0.995
Decay(x) == (x * 995) \div 1000

\* holdFrames
HoldFrames == 10

\* a slip: the previous value is used even when it is 0
BlendBaseWithoutFallback(smoothed, stable) == smoothed

\* smoothedFreqRef.current || stable
BlendBase(smoothed, stable) == IF smoothed # 0 THEN smoothed ELSE stable

\* the branch of processAudio taken when detected > 0
OnAccept(st, detected) ==
  LET buf == PushHistory(st.lastFreqs, detected)
      med == median(buf)
      stable == IF st.smoothed > 0 THEN ClosestOctave(med, st.smoothed) ELSE med
      prev == BlendBase(st.smoothed, stable)
      nextFreq == Blend(prev, stable)
  IN  [smoothed |-> nextFreq, lastFreqs |-> buf, misses |-> 0, nextFreq |-> nextFreq]

\* a slip: the hold lasts one frame more
StillHoldingLonger(misses) == misses <= HoldFrames + 1

\* a slip: the hold ends one frame early
StillHoldingStrict(misses) == misses < HoldFrames

\* missesRef.current <= holdFrames
StillHolding(misses) == misses <= HoldFrames

\* a slip: the hold does not look at allowSoftStart
HoldConditionInAnyMode(st, cfg, volume) ==
  st.smoothed > 0 /\ volume * 10 >= cfg.minRms * 7

\* a slip: the hold does not look at the volume
HoldConditionAnyVolume(st, cfg, volume) == cfg.allowSoftStart /\ st.smoothed > 0

\* the hold condition of a missed frame
HoldCondition(st, cfg, volume) ==
  cfg.allowSoftStart /\ st.smoothed > 0 /\ volume * 10 >= cfg.minRms * 7

\* the branch of processAudio taken when nothing was detected
OnMiss(st, cfg, volume) ==
  LET misses == st.misses + 1
  IN  IF HoldCondition(st, cfg, volume) /\ StillHolding(misses)
        THEN [smoothed |-> Decay(st.smoothed), lastFreqs |-> st.lastFreqs,
              misses |-> misses, nextFreq |-> Decay(st.smoothed)]
        ELSE [smoothed |-> 0, lastFreqs |-> <<>>, misses |-> misses, nextFreq |-> 0]

\* the raw estimate of a frame, after the fallback
Estimate(cfg, in) ==
  WithFallback(PrimaryEstimate(in.volume, cfg, in.yin), in.volume, cfg, in.fft)

\* one frame: the new stabilizer state and the reported frequency
ProcessFrame(st, cfg, in) ==
  LET est == Estimate(cfg, in)
      detected == Detect(est, st.smoothed, in.volume, cfg)
  IN  IF detected > 0 THEN OnAccept(st, detected) ELSE OnMiss(st, cfg, in.volume)

\* the frame has RMS >= 1.4*minRms and an estimate with frequency > 0 and
\* softQuality <= confidence < minQuality
LoudSoftFrame(cfg, in) ==
  /\ in.volume * 10 >= cfg.minRms * 14
  /\ Estimate(cfg, in).freq > 0
  /\ Estimate(cfg, in).quality >= cfg.softQuality
  /\ Estimate(cfg, in).quality < cfg.minQuality

Stabilizer == [smoothed |-> smoothedFreqRef, lastFreqs |-> lastFreqsRef, misses |-> missesRef]

(***************************************************************************)
(* What a frame can deliver: the RMS of the block, the result of the       *)
(* primary estimator and the result of the spectral fallback.  Both        *)
(* estimators return a frequency within [minFreq, maxFreq] or none.        *)
(***************************************************************************)
\* frequencies present in the signal; 110 Hz lies below every band
FreqInputs == {11000, 22000, 33000, 44000}

InBand(f, cfg) == f >= cfg.minFreq /\ f <= cfg.maxFreq

\* RMS levels at 0, 0.7, 1, 1.3 and 1.4 times minRms
VolumeInputs(cfg) ==
  {0, (cfg.minRms * 7) \div 10, cfg.minRms, (cfg.minRms * 13) \div 10, (cfg.minRms * 14) \div 10}

\* the confidences of the primary estimator: 1 - cmnd[tauEstimate], and
\* cmnd[tauEstimate] < threshold
QualityInputs(cfg) == {100 - cfg.threshold, 100}

\* the primary estimator's results in the session model, at its lowest confidence
YinResults(cfg) ==
  {NoPitch} \cup
  [freq : {f \in FreqInputs : InBand(f, cfg)}, quality : {100 - cfg.threshold}]

FftResults(cfg) == {-1} \cup {f \in FreqInputs : InBand(f, cfg)}

\* processAudio calls the primary estimator
YinRuns(volume, cfg) == volume >= cfg.minRms

\* processAudio calls the spectral fallback
FftRuns(volume, cfg, yin) ==
  LET est == PrimaryEstimate(volume, cfg, yin)
  IN  (est.freq <= 0 \/ est.quality < cfg.softQuality) /\ volume * 10 >= cfg.minRms * 13

\* the frames of the session model; an estimator that does not run delivers nothing
FrameInputs(cfg) ==
  {in \in [volume : VolumeInputs(cfg), yin : YinResults(cfg), fft : FftResults(cfg)] :
     /\ YinRuns(in.volume, cfg) \/ in.yin = NoPitch
     /\ FftRuns(in.volume, cfg, in.yin) \/ in.fft = -1}

\* the frames of the lifecycle model: silence, a held miss, a confident pitch
LifeInputs(cfg) ==
  {[volume |-> 0, yin |-> NoPitch, fft |-> -1],
   [volume |-> cfg.minRms, yin |-> NoPitch, fft |-> -1],
   [volume |-> (cfg.minRms * 14) \div 10,
    yin |-> [freq |-> 22000, quality |-> 100 - cfg.threshold], fft |-> -1]}

\* the frames of the tracking model: silence, a miss that a hold survives,
\* confident pitches at 220 and 330 Hz, a spectral peak at 440 Hz
TrackInputs(cfg) ==
  {[volume |-> 0, yin |-> NoPitch, fft |-> -1],
   [volume |-> cfg.minRms, yin |-> NoPitch, fft |-> -1],
   [volume |-> cfg.minRms, yin |-> [freq |-> 22000, quality |-> 100 - cfg.threshold], fft |-> -1],
   [volume |-> cfg.minRms, yin |-> [freq |-> 33000, quality |-> 100 - cfg.threshold], fft |-> -1],
   [volume |-> (cfg.minRms * 14) \div 10, yin |-> NoPitch, fft |-> 44000]}

\* what a specification explores: its frames and the bounds on its counters
LifeScope == [frames |-> "life", maxAccepts |-> LifeMaxAccepts, maxMisses |-> LifeMaxMisses]

SessionScope == [frames |-> "session", maxAccepts |-> MaxAccepts, maxMisses |-> MaxMisses]

TrackScope == [frames |-> "track", maxAccepts |-> TrackMaxAccepts, maxMisses |-> TrackMaxMisses]

InputsOf(scope, cfg) ==
  IF scope.frames = "session" THEN FrameInputs(cfg)
  ELSE IF scope.frames = "track" THEN TrackInputs(cfg)
  ELSE LifeInputs(cfg)

(***************************************************************************)
(* The hook: startListening, stopListening and the frame callback.         *)
(***************************************************************************)
\* the state after useAudioDetector() has rendered once
InitHook ==
  /\ state = IdleState
  /\ hasPermission = "null"
  /\ audioContextRef = 0
  /\ analyserRef = FALSE
  /\ streamRef = 0
  /\ animationFrameRef = 0
  /\ bufferRef = FALSE
  /\ freqDataRef = FALSE
  /\ smoothedFreqRef = 0
  /\ lastFreqsRef = <<>>
  /\ missesRef = 0
  /\ pitchOptsRef = DefaultOpts
  /\ liveStreams = {}
  /\ openContexts = {}
  /\ scheduled = {}
  /\ pendingStarts = 0
  /\ lastOp = "init"
  /\ raised = FALSE
  /\ noStartSinceStop = FALSE
  /\ accepts = 0
  /\ resumes = 0
  /\ last = NoFrame

\* a handle or id the host has not handed out among `used`
FreshId(used) == CHOOSE i \in 1..(Cardinality(used) + 1) : i \notin used

\* the options a caller passes to startListening
StartOpts == {NoOpts, TunerOpts}

\* the frame keeps the counters within the bounds of the model
FrameWithinBounds(scope, st, r) ==
  IF r.misses = 0
    THEN accepts < scope.maxAccepts /\ (st.misses > 0 /\ st.smoothed > 0 => resumes < MaxResumes)
    ELSE st.misses < scope.maxMisses

\* the body of processAudio once its refs are known to be set: r is the
\* result of the frame, handle the handle of the next callback
RunFrame(st, cfg, in, r, handle) ==
  /\ smoothedFreqRef' = r.smoothed
  /\ lastFreqsRef' = r.lastFreqs
  /\ missesRef' = r.misses
  /\ animationFrameRef' = handle
  /\ accepts' = IF r.misses = 0 THEN accepts + 1 ELSE accepts
  /\ resumes' = IF r.misses = 0 /\ st.misses > 0 /\ st.smoothed > 0 THEN resumes + 1 ELSE resumes
  /\ last' = IF r.misses = 0
               THEN [raw |-> Estimate(cfg, in).freq, quality |-> Estimate(cfg, in).quality,
                     prev |-> st.smoothed,
                     detected |-> Detect(Estimate(cfg, in), st.smoothed, in.volume, cfg),
                     hist |-> st.lastFreqs, soft |-> LoudSoftFrame(cfg, in), run |-> 0]
               ELSE [raw |-> -1, quality |-> 0, prev |-> st.smoothed, detected |-> -1,
                     hist |-> st.lastFreqs, soft |-> LoudSoftFrame(cfg, in),
                     run |-> IF LoudSoftFrame(cfg, in) THEN last.run + 1 ELSE 0]

\* a slip: startListening leaves the error of the previous attempt in place
KeepError(st) == st

\* setState(prev => ({ ...prev, error: null }))
ClearError(st) == [st EXCEPT !.error = FALSE]

\* startListening up to its await: clears the error and stores the options
StartListening(opts) ==
  /\ pendingStarts < MaxPending
  /\ state' = ClearError(state)
  /\ pitchOptsRef' = MergeOpts(opts, pitchOptsRef)
  /\ pendingStarts' = pendingStarts + 1
  /\ lastOp' = "start"
  /\ raised' = FALSE
  /\ UNCHANGED <<noteVars, frameVars, cifraVars>>
  /\ noStartSinceStop' = FALSE
  /\ UNCHANGED <<hasPermission, audioContextRef, analyserRef, streamRef,
                 animationFrameRef, bufferRef, freqDataRef, smoothedFreqRef,
                 lastFreqsRef, missesRef, liveStreams, openContexts, scheduled,
                 accepts, resumes, last>>

\* the catch block of startListening
StartCatch(st) == [st EXCEPT !.error = TRUE, !.isListening = FALSE]

\* getUserMedia rejects: the catch block runs
StartRejected ==
  /\ pendingStarts > 0
  /\ pendingStarts' = pendingStarts - 1
  /\ hasPermission' = "false"
  /\ state' = StartCatch(state)
  /\ lastOp' = "startFailed"
  /\ raised' = FALSE
  /\ UNCHANGED <<noteVars, frameVars, cifraVars>>
  /\ UNCHANGED <<audioContextRef, analyserRef, streamRef, animationFrameRef,
                 bufferRef, freqDataRef, smoothedFreqRef, lastFreqsRef, missesRef,
                 pitchOptsRef, liveStreams, openContexts, scheduled,
                 noStartSinceStop, accepts, resumes, last>>

\* getUserMedia resolves and new AudioContext() throws
StartContextThrows ==
  /\ pendingStarts > 0
  /\ Cardinality(liveStreams) < MaxStreams
  /\ LET stream == FreshId(liveStreams \cup {streamRef})
     IN  /\ liveStreams' = liveStreams \cup {stream}
         /\ streamRef' = stream
  /\ pendingStarts' = pendingStarts - 1
  /\ hasPermission' = "false"
  /\ state' = StartCatch(state)
  /\ lastOp' = "startFailed"
  /\ raised' = FALSE
  /\ UNCHANGED <<noteVars, frameVars, cifraVars>>
  /\ UNCHANGED <<audioContextRef, analyserRef, animationFrameRef, bufferRef,
                 freqDataRef, smoothedFreqRef, lastFreqsRef, missesRef,
                 pitchOptsRef, openContexts, scheduled, noStartSinceStop,
                 accepts, resumes, last>>

\* getUserMedia resolves and createMediaStreamSource (or connect) throws
StartSourceThrows ==
  /\ pendingStarts > 0
  /\ Cardinality(liveStreams) < MaxStreams
  /\ LET stream == FreshId(liveStreams \cup {streamRef})
         context == FreshId(openContexts \cup {audioContextRef})
     IN  /\ liveStreams' = liveStreams \cup {stream}
         /\ streamRef' = stream
         /\ openContexts' = openContexts \cup {context}
         /\ audioContextRef' = context
  /\ analyserRef' = TRUE
  /\ pendingStarts' = pendingStarts - 1
  /\ hasPermission' = "false"
  /\ state' = StartCatch(state)
  /\ lastOp' = "startFailed"
  /\ raised' = FALSE
  /\ UNCHANGED <<noteVars, frameVars, cifraVars>>
  /\ UNCHANGED <<animationFrameRef, bufferRef, freqDataRef, smoothedFreqRef,
                 lastFreqsRef, missesRef, pitchOptsRef, scheduled,
                 noStartSinceStop, accepts, resumes, last>>

\* what startListening assigns to the stabilizer before the first frame
StartReset(st) == [st EXCEPT !.misses = 0]

\* getUserMedia resolves and the setup completes: the first frame runs at once
StartResolved(scope) ==
  /\ pendingStarts > 0
  /\ Cardinality(liveStreams) < MaxStreams
  /\ \E in \in InputsOf(scope, pitchOptsRef) :
       \E r \in {ProcessFrame(StartReset(Stabilizer), pitchOptsRef, in)} :
         LET stream == FreshId(liveStreams \cup {streamRef})
             context == FreshId(openContexts \cup {audioContextRef})
             handle == FreshId(scheduled \cup {animationFrameRef})
         IN  /\ FrameWithinBounds(scope, StartReset(Stabilizer), r)
             /\ liveStreams' = liveStreams \cup {stream}
             /\ streamRef' = stream
             /\ openContexts' = openContexts \cup {context}
             /\ audioContextRef' = context
             /\ state' = [isListening |-> TRUE, frequency |-> r.nextFreq,
                          volume |-> in.volume, error |-> state.error]
             /\ RunFrame(StartReset(Stabilizer), pitchOptsRef, in, r, handle)
             /\ scheduled' = scheduled \cup {handle}
  /\ analyserRef' = TRUE
  /\ bufferRef' = TRUE
  /\ freqDataRef' = TRUE
  /\ pendingStarts' = pendingStarts - 1
  /\ hasPermission' = "true"
  /\ lastOp' = "started"
  /\ raised' = FALSE
  /\ UNCHANGED <<noteVars, frameVars, cifraVars>>
  /\ UNCHANGED <<pitchOptsRef, noStartSinceStop>>

\* the callback of requestAnimationFrame finds a ref null and returns
FrameSkipped ==
  /\ ~analyserRef \/ ~bufferRef \/ audioContextRef = 0
  /\ \E id \in scheduled : scheduled' = scheduled \ {id}
  /\ lastOp' = "frameSkipped"
  /\ raised' = FALSE
  /\ UNCHANGED <<noteVars, frameVars, cifraVars>>
  /\ UNCHANGED <<state, hasPermission, audioContextRef, analyserRef, streamRef,
                 animationFrameRef, bufferRef, freqDataRef, smoothedFreqRef,
                 lastFreqsRef, missesRef, pitchOptsRef, liveStreams, openContexts,
                 pendingStarts, noStartSinceStop, accepts, resumes, last>>

\* the callback of requestAnimationFrame: processAudio
FrameCallback(scope) ==
  /\ analyserRef /\ bufferRef /\ audioContextRef # 0
  /\ \E id \in scheduled :
       \E in \in InputsOf(scope, pitchOptsRef) :
         \E r \in {ProcessFrame(Stabilizer, pitchOptsRef, in)} :
           LET handle == FreshId((scheduled \ {id}) \cup {animationFrameRef, id})
           IN  /\ FrameWithinBounds(scope, Stabilizer, r)
               /\ state' = [state EXCEPT !.frequency = r.nextFreq, !.volume = in.volume]
               /\ RunFrame(Stabilizer, pitchOptsRef, in, r, handle)
               /\ scheduled' = (scheduled \ {id}) \cup {handle}
  /\ lastOp' = "frame"
  /\ raised' = FALSE
  /\ UNCHANGED <<noteVars, frameVars, cifraVars>>
  /\ UNCHANGED <<hasPermission, audioContextRef, analyserRef, streamRef, bufferRef,
                 freqDataRef, pitchOptsRef, liveStreams, openContexts,
                 pendingStarts, noStartSinceStop>>

\* cancelAnimationFrame of the stored handle, if there is one
CancelFrame(handle, pending) == IF handle # 0 THEN pending \ {handle} ELSE pending

\* a slip: no null check, so a null stream raises a TypeError
ReleaseStreamUnguarded(stream, live) ==
  [live |-> live \ {stream}, raised |-> stream = 0]

\* getTracks().forEach(stop) of the stored stream, if there is one
ReleaseStream(stream, live) ==
  [live |-> IF stream # 0 THEN live \ {stream} ELSE live, raised |-> FALSE]

\* close() of the stored AudioContext, if there is one
CloseContext(context, open) == IF context # 0 THEN open \ {context} ELSE open

\* stopListening (also the cleanup of the unmount effect)
StopListening ==
  LET released == ReleaseStream(streamRef, liveStreams)
  IN  /\ scheduled' = CancelFrame(animationFrameRef, scheduled)
      /\ animationFrameRef' = 0
      /\ lastOp' = IF lastOp \in {"stop", "stopAgain"} THEN "stopAgain" ELSE "stop"
      /\ raised' = released.raised
      /\ noStartSinceStop' = TRUE
      /\ IF released.raised
           THEN UNCHANGED <<state, audioContextRef, analyserRef, streamRef,
                            bufferRef, freqDataRef, smoothedFreqRef, lastFreqsRef,
                            missesRef, liveStreams, openContexts>>
           ELSE /\ liveStreams' = released.live
                /\ streamRef' = 0
                /\ openContexts' = CloseContext(audioContextRef, openContexts)
                /\ audioContextRef' = 0
                /\ analyserRef' = FALSE
                /\ bufferRef' = FALSE
                /\ freqDataRef' = FALSE
                /\ smoothedFreqRef' = 0
                /\ lastFreqsRef' = <<>>
                /\ missesRef' = 0
                /\ state' = IdleState
      /\ UNCHANGED <<hasPermission, pitchOptsRef, pendingStarts, accepts, resumes, last>>
      /\ UNCHANGED <<noteVars, frameVars, cifraVars>>

(***************************************************************************)
(* The classifier (ukuleleConfig.ts).  A frequency is a record: sign is    *)
(* -1, 0 or 1, and for a positive frequency cc is its pitch above C0 in    *)
(* hundredths of a cent: 1200*log2(f/C0) = cc/100.                         *)
(***************************************************************************)
Hz(cc) == [sign |-> 1, cc |-> cc]

ZeroHz == [sign |-> 0, cc |-> 0]

NegativeHz == [sign |-> -1, cc |-> 0]

\* 1200 * Math.log2(a / b), in hundredths of a cent
CentsBetween(a, b) == a.cc - b.cc

\* a slip: the comparison is strict
WithinCentsStrict(absCents, halfCents) == absCents * 2 < halfCents * 100

\* absCents <= limit, absCents in hundredths of a cent, limit in half cents
WithinCents(absCents, halfCents) == absCents * 2 <= halfCents * 100

isNoteMatch(detected, expected, tolerance) ==
  IF detected.sign <= 0 THEN "wrong"
  ELSE LET absCents == Abs(CentsBetween(detected, expected))
       IN  IF WithinCents(absCents, tolerance) THEN "correct"
           ELSE IF WithinCents(absCents, 2 * tolerance) THEN "close"
           ELSE "wrong"

NOTE_NAMES == <<"C", "C#", "D", "D#", "E", "F", "F#", "G", "G#", "A", "A#", "B">>

\* a slip: Math.floor in place of Math.round
MathFloor(x, unit) == x \div unit

\* Math.round(x / unit): the nearest integer, a half rounded up
MathRound(x, unit) == (2 * x + unit) \div (2 * unit)

\* JavaScript's a % n: the remainder has the sign of a
JsRem(a, n) == IF a >= 0 THEN a % n ELSE -((-a) % n)

\* a slip: the octave is rounded to the nearest, as the note index is
OctaveRounded(cc) == MathRound(cc, 120000)

\* Math.floor(halfSteps / 12)
Octave(cc) == cc \div 120000

getNoteFromFrequency(frequency) ==
  IF frequency.sign <= 0 THEN [note |-> "-", octave |-> 0, cents |-> 0]
  ELSE LET rounded == MathRound(frequency.cc, 10000)
           noteIndex == JsRem(rounded, 12)
       IN  [note |-> NOTE_NAMES[(IF noteIndex < 0 THEN noteIndex + 12 ELSE noteIndex) + 1],
            octave |-> Octave(frequency.cc),
            cents |-> MathRound(frequency.cc - rounded * 10000, 100)]

\* the open strings of each tuning: 392.00, 261.63, 329.63, 440.00 Hz and
\* 146.83, 196.00, 246.94, 329.63 Hz, as pitches
UKULELE_TUNINGS ==
  [soprano |-> <<550002, 480003, 520001, 570000>>,
   concert |-> <<550002, 480003, 520001, 570000>>,
   tenor |-> <<550002, 480003, 520001, 570000>>,
   baritone |-> <<379997, 430002, 469999, 520001>>]

\* baseFrequency * Math.pow(2, fret / 12); stringIndex counts from 0
getFrequencyForPosition(ukuleleType, stringIndex, fret) ==
  Hz(UKULELE_TUNINGS[ukuleleType][stringIndex + 1] + fret * 10000)

\* the chord player numbers the strings from A: 3 - appStringIndex
appStringToConfigString(appStringIndex) == 3 - appStringIndex

\* Math.abs(1200 * Math.log2(frequency / expected)), frequency > 0
AbsCents(frequency, expected) == Abs(CentsBetween(frequency, expected))

\* a slip: a position as close as the best so far replaces it
CloserOrEqual(cents, best) == best.key = <<>> \/ cents <= best.cents

\* cents < bestCents; bestCents is infinite until a position was seen
CloserThanBest(cents, best) == best.key = <<>> \/ cents < best.cents

\* the loop of noteStatuses over positions[i..]: the closest position
RECURSIVE BestPosition(_, _, _, _, _)
BestPosition(positions, i, frequency, ukuleleType, best) ==
  IF i > Len(positions) THEN best
  ELSE LET p == positions[i]
           expected == getFrequencyForPosition(ukuleleType, appStringToConfigString(p.string), p.fret)
           cents == AbsCents(frequency, expected)
       IN  BestPosition(positions, i + 1, frequency, ukuleleType,
             IF CloserThanBest(cents, best)
               THEN [key |-> <<p.string, p.fret>>, cents |-> cents, expected |-> expected]
               ELSE best)

\* the keys `${p.string}-${p.fret}` of a position list
KeysOf(positions) == {<<positions[i].string, positions[i].fret>> : i \in 1..Len(positions)}

\* the memo of the chord player: a status for every position of the chord
noteStatuses(positions, practiceOn, isListening, frequency, ukuleleType) ==
  LET waiting == [k \in KeysOf(positions) |-> "waiting"]
  IN  IF ~practiceOn \/ ~isListening \/ frequency.sign <= 0 \/ Len(positions) = 0
        THEN waiting
        ELSE LET best == BestPosition(positions, 1, frequency, ukuleleType,
                           [key |-> <<>>, cents |-> 0, expected |-> ZeroHz])
             IN  IF best.key # <<>>
                   THEN [waiting EXCEPT ![best.key] = isNoteMatch(frequency, best.expected, 50)]
                   ELSE waiting

NoMatch == [string |-> -1, fret |-> -1, match |-> "null", cents |-> 0]

\* a slip: a combination as close as the best match replaces it
BetterOrEqualMatch(cents, bestMatch) == bestMatch = NoMatch \/ cents <= bestMatch.cents

\* !bestMatch || cents < bestMatch.cents
BetterMatch(cents, bestMatch) == bestMatch = NoMatch \/ cents < bestMatch.cents

\* cents <= limit, where cents is infinite or NaN for a frequency <= 0
CentsWithin(detected, expected, halfCents) ==
  detected.sign > 0 /\ WithinCents(AbsCents(detected, expected), halfCents)

\* the two loops of findMatchingPosition, from (stringIndex, fret) on
RECURSIVE SearchPositions(_, _, _, _, _, _, _)
SearchPositions(detected, ukuleleType, maxFret, tolerance, stringIndex, fret, bestMatch) ==
  IF stringIndex >= 4 THEN bestMatch
  ELSE IF fret > maxFret
    THEN SearchPositions(detected, ukuleleType, maxFret, tolerance, stringIndex + 1, 0, bestMatch)
  ELSE LET expectedFreq == getFrequencyForPosition(ukuleleType, stringIndex, fret)
           within == CentsWithin(detected, expectedFreq, 2 * tolerance)
           cents == AbsCents(detected, expectedFreq)
           match == IF CentsWithin(detected, expectedFreq, tolerance) THEN "correct" ELSE "close"
       IN  SearchPositions(detected, ukuleleType, maxFret, tolerance, stringIndex, fret + 1,
             IF within /\ BetterMatch(cents, bestMatch)
               THEN [string |-> stringIndex, fret |-> fret, match |-> match, cents |-> cents]
               ELSE bestMatch)

NoPosition == [string |-> -1, fret |-> -1, match |-> "null"]

findMatchingPosition(detected, ukuleleType, maxFret, tolerance) ==
  LET bestMatch == SearchPositions(detected, ukuleleType, maxFret, tolerance, 0, 0, NoMatch)
  IN  IF bestMatch # NoMatch
        THEN [string |-> bestMatch.string, fret |-> bestMatch.fret, match |-> bestMatch.match]
        ELSE NoPosition

\* the chords C, D and E of the chord table, and an empty list
ChordInputs ==
  {<<>>,
   <<[string |-> 0, fret |-> 3]>>,
   <<[string |-> 1, fret |-> 2], [string |-> 2, fret |-> 2], [string |-> 3, fret |-> 2]>>,
   <<[string |-> 3, fret |-> 4], [string |-> 2, fret |-> 4], [string |-> 1, fret |-> 4],
     [string |-> 0, fret |-> 2]>>}

\* detected pitches: midway between the two B4 of the E chord (G string fret
\* 4, A string fret 2), C5, midway between C5 on the G and A strings, and
\* midway between A4 and A#4
ChordPitchInputs == {590001, 600000, 600001, 575000}

ChordOffsetInputs == {-5001, -5000, -2501, -2500, -1, 0, 1, 2500, 2501, 5000, 5001}

ChordFrequencyInputs ==
  {ZeroHz, NegativeHz} \cup {Hz(p + o) : p \in ChordPitchInputs, o \in ChordOffsetInputs}

TuningInputs == {"soprano", "baritone"}

MaxFretInputs == {0, 5}

NoChord == [positions |-> <<>>, practiceOn |-> FALSE, isListening |-> FALSE,
            ukuleleType |-> "soprano"]

NoStatuses == [k \in {} |-> "waiting"]

NoSearch == [ukuleleType |-> "soprano", maxFret |-> -1]

\* pitches of the inputs: A4, C4, C0 and the B below C0
PitchInputs == {570000, 480000, 0, -10000}

\* offsets from a pitch, in hundredths of a cent
OffsetInputs ==
  {-5001, -5000, -4951, -4950, -2501, -2500, -1, 0, 49, 50, 2500, 2501, 4949, 4950,
   4999, 5000, 5001}

FrequencyInputs ==
  {ZeroHz, NegativeHz} \cup {Hz(p + o) : p \in PitchInputs, o \in OffsetInputs}

ToleranceInputs == {50, 25}

NoNote == [note |-> "none", octave |-> 0, cents |-> 0]

\* the state of a component that has not classified anything yet
InitNoteIdle ==
  /\ detectedFrequency = ZeroHz
  /\ expectedFrequency = Hz(570000)
  /\ toleranceCents = 50
  /\ verdict = "none"
  /\ noteInfo = NoNote
  /\ chordArgs = NoChord
  /\ statuses = NoStatuses
  /\ searchArgs = NoSearch
  /\ found = NoPosition

\* no classifier function has been called yet
NoteIdle ==
  /\ verdict = "none" /\ noteInfo = NoNote
  /\ statuses = NoStatuses /\ chordArgs = NoChord
  /\ found = NoPosition /\ searchArgs = NoSearch

\* a caller classifies a detected frequency against a target; the variables
\* hold the call and its result
MatchNote ==
  /\ NoteIdle
  /\ \E d \in FrequencyInputs, e \in {Hz(p) : p \in {570000, 480000}}, t \in ToleranceInputs :
       /\ detectedFrequency' = d
       /\ expectedFrequency' = e
       /\ toleranceCents' = t
       /\ verdict' = isNoteMatch(d, e, t)
  /\ noteInfo' = NoNote
  /\ chordArgs' = NoChord /\ statuses' = NoStatuses
  /\ searchArgs' = NoSearch /\ found' = NoPosition
  /\ UNCHANGED <<hookVars, frameVars, cifraVars>>

\* a caller names a frequency
NameNote ==
  /\ NoteIdle
  /\ \E f \in FrequencyInputs :
       /\ detectedFrequency' = f
       /\ noteInfo' = getNoteFromFrequency(f)
  /\ verdict' = "none"
  /\ chordArgs' = NoChord /\ statuses' = NoStatuses
  /\ searchArgs' = NoSearch /\ found' = NoPosition
  /\ UNCHANGED <<expectedFrequency, toleranceCents, hookVars, frameVars, cifraVars>>

\* the chord player renders: noteStatuses is recomputed
ClassifyChord ==
  /\ NoteIdle
  /\ \E positions \in ChordInputs, practiceOn \in BOOLEAN, isListening \in BOOLEAN,
        frequency \in ChordFrequencyInputs :
       /\ chordArgs' = [positions |-> positions, practiceOn |-> practiceOn,
                        isListening |-> isListening, ukuleleType |-> "soprano"]
       /\ detectedFrequency' = frequency
       /\ statuses' = noteStatuses(positions, practiceOn, isListening, frequency, "soprano")
  /\ verdict' = "none" /\ noteInfo' = NoNote
  /\ searchArgs' = NoSearch /\ found' = NoPosition
  /\ UNCHANGED <<expectedFrequency, toleranceCents, hookVars, frameVars, cifraVars>>

\* a caller searches the position of a detected frequency
SearchPosition ==
  /\ NoteIdle
  /\ \E detected \in ChordFrequencyInputs, ukuleleType \in TuningInputs,
        maxFret \in MaxFretInputs, tolerance \in ToleranceInputs :
       /\ detectedFrequency' = detected
       /\ toleranceCents' = tolerance
       /\ searchArgs' = [ukuleleType |-> ukuleleType, maxFret |-> maxFret]
       /\ found' = findMatchingPosition(detected, ukuleleType, maxFret, tolerance)
  /\ verdict' = "none" /\ noteInfo' = NoNote
  /\ chordArgs' = NoChord /\ statuses' = NoStatuses
  /\ UNCHANGED <<expectedFrequency, hookVars, frameVars, cifraVars>>

(***************************************************************************)
(* The signal path of a frame: preprocessBuffer, yinPitchDetailed and       *)
(* fftPeakFrequency on sample blocks and spectra.  Samples are integers     *)
(* (1 = full scale); the Hann weights are kept in tenths; a processed       *)
(* sample v is kept as v * N * 10, N the block length.  The CMND values,    *)
(* which the source stores in single precision, are kept in thousandths.    *)
(* Spectrum values are dB, a multiple of 20; magnitudes are kept in units   *)
(* of 1/10000.  Blocks are short, so the sample rate is 2000 Hz to put the  *)
(* lags of a block within the bands of the configurations.                  *)
(***************************************************************************)
\* the lengths of the blocks explored (the hook's is analyser.fftSize)
BlockLengths == {4, 14}

\* 0.5 * (1 - cos(2*pi*n / (N - 1))) in tenths, for the lengths explored
hannWindow(n, N) ==
  IF N = 4 THEN <<0, 8, 8, 0>>[n + 1]
  ELSE <<0, 1, 2, 4, 7, 9, 10, 10, 9, 7, 4, 2, 1, 0>>[n + 1]

RECURSIVE SumSeq(_)
SumSeq(q) == IF q = <<>> THEN 0 ELSE Head(q) + SumSeq(Tail(q))

\* Math.sqrt, rounded down
Isqrt(n) == CHOOSE r \in 0..(n + 1) : r * r <= n /\ (r + 1) * (r + 1) > n

\* removes the mean, applies the window: the processed block and its RMS
\* (in 1/10000, to the nearest 1/1000 below)
preprocessBuffer(input) ==
  LET N == Len(input)
      sum == SumSeq(input)
      out == [i \in 1..N |-> (N * input[i] - sum) * hannWindow(i - 1, N)]
      sumSq == SumSeq([i \in 1..N |-> out[i] * out[i]])
  IN  [out |-> out, rms |-> 10 * Isqrt((10000 * sumSq) \div (N * N * N))]

\* a slip: a zero running sum gives a CMND of 0, a perfect period
CmndUnguarded(d, tau, runningSum) ==
  IF runningSum > 0 THEN (d * tau * 1000) \div runningSum ELSE 0

\* runningSum > 0 ? (diff[tau] * tau) / runningSum : 1
Cmnd(d, tau, runningSum) ==
  IF runningSum > 0 THEN (d * tau * 1000) \div runningSum ELSE 1000

\* the lags searched: minTau and maxTau
LagRange(bufferSize, sampleRate, opts) ==
  [minTau |-> Max(2, (sampleRate * 100) \div opts.maxFreq),
   maxTau |-> Min(bufferSize \div 2 - 1, (sampleRate * 100) \div opts.minFreq)]

\* a slip: a CMND equal to the threshold counts as below it
BelowThresholdInclusive(c, threshold) == c <= threshold * 10

\* cmnd[tau] < threshold
BelowThreshold(c, threshold) == c < threshold * 10

\* a slip: the first lag below the threshold is taken, without the descent
TauEstimateWithoutDescent(cmnd, minTau, maxTau, threshold) ==
  LET below == {tau \in (minTau + 1)..maxTau : BelowThreshold(cmnd[tau], threshold)}
  IN  IF below = {} THEN -1
      ELSE CHOOSE tau \in below : \A o \in below : tau <= o

\* the absolute-threshold loop: tauEstimate, or -1
TauEstimate(cmnd, minTau, maxTau, threshold) ==
  LET below == {tau \in (minTau + 1)..maxTau : BelowThreshold(cmnd[tau], threshold)}
  IN  IF below = {} THEN -1
      ELSE LET first == CHOOSE tau \in below : \A o \in below : tau <= o
           \* while (tau + 1 <= maxTau && cmnd[tau + 1] < cmnd[tau]) tau++
           IN  CHOOSE tau \in first..maxTau :
                 /\ \A k \in first..(tau - 1) : cmnd[k + 1] < cmnd[k]
                 /\ ~(tau + 1 <= maxTau /\ cmnd[tau + 1] < cmnd[tau])

\* the parabolic interpolation around tauEstimate, the band check and the
\* confidence
EstimateAtLag(cmnd, tauEstimate, minTau, maxTau, sampleRate, opts) ==
  LET x0 == IF tauEstimate > minTau THEN tauEstimate - 1 ELSE tauEstimate
      x2 == IF tauEstimate < maxTau THEN tauEstimate + 1 ELSE tauEstimate
      s0 == cmnd[x0]
      s1 == cmnd[tauEstimate]
      s2 == cmnd[x2]
      denom == 2 * s1 - s2 - s0
      \* betterTau = num / den, den > 0
      num == IF denom = 0 THEN tauEstimate
             ELSE IF denom > 0 THEN tauEstimate * 2 * denom + (s2 - s0)
             ELSE -(tauEstimate * 2 * denom + (s2 - s0))
      den == IF denom = 0 THEN 1 ELSE 2 * Abs(denom)
      \* sampleRate / betterTau in 1/100 Hz (to the nearest 1/10 below);
      \* not finite or negative if num <= 0
      freq == IF num > 0 THEN 10 * ((10 * sampleRate * den) \div num) ELSE -1
  IN  IF num <= 0 \/ freq < opts.minFreq \/ freq > opts.maxFreq THEN NoPitch
      ELSE [freq |-> freq, quality |-> Max(0, Min(100, (1000 - s1) \div 10))]

yinPitchDetailed(buffer, sampleRate, opts) ==
  LET half == Len(buffer) \div 2
      minTau == LagRange(Len(buffer), sampleRate, opts).minTau
      maxTau == LagRange(Len(buffer), sampleRate, opts).maxTau
      diff(tau) ==
        SumSeq([i \in 1..half |-> (buffer[i] - buffer[i + tau]) * (buffer[i] - buffer[i + tau])])
      runningSum(tau) == SumSeq([k \in 1..(tau - minTau + 1) |-> diff(minTau + k - 1)])
      cmnd == [tau \in minTau..maxTau |->
                 IF tau = minTau THEN 1000 ELSE Cmnd(diff(tau), tau, runningSum(tau))]
      tauEstimate == TauEstimate(cmnd, minTau, maxTau, opts.threshold)
  IN  IF half < 2 \/ tauEstimate = -1 THEN NoPitch
      ELSE EstimateAtLag(cmnd, tauEstimate, minTau, maxTau, sampleRate, opts)

\* -Infinity, the level of a bin without energy and the initial bestDb
MinusInfinity == -1000

RECURSIVE Pow10(_)
Pow10(k) == IF k <= 0 THEN 1 ELSE 10 * Pow10(k - 1)

\* Math.pow(10, db / 20), in units of 1/10000
mag(db) == IF db <= MinusInfinity THEN 0 ELSE Pow10((db + 80) \div 20)

\* bestIdx === -1 || bestDb < -75
BelowNoiseFloor(bestIdx, bestDb) == bestIdx = -1 \/ bestDb < -75

\* the loop over the bins startBin..endBin: the first bin of the highest level
RECURSIVE PeakBin(_, _, _, _)
PeakBin(data, i, endBin, best) ==
  IF i > endBin THEN best
  ELSE PeakBin(data, i + 1, endBin,
         IF data[i + 1] > best.db THEN [idx |-> i, db |-> data[i + 1]] ELSE best)

\* data: the dB level of every bin, bin 0 first
fftPeakFrequency(data, sampleRate, minFreq, maxFreq) ==
  LET binCount == Len(data)
      \* binHz = sampleRate / (2 * binCount)
      startBin == Max(1, (minFreq * 2 * binCount) \div (sampleRate * 100))
      endBin == Min(binCount - 2, -((-(maxFreq * 2 * binCount)) \div (sampleRate * 100)))
      best == PeakBin(data, startBin, endBin, [idx |-> -1, db |-> MinusInfinity])
  IN  IF BelowNoiseFloor(best.idx, best.db) THEN -1
      ELSE LET a == mag(data[best.idx])
               b == mag(data[best.idx + 1])
               c == mag(data[best.idx + 2])
               denom == a - 2 * b + c
               \* peakBin = num / den, den > 0
               num == IF denom = 0 THEN best.idx
                      ELSE IF denom > 0 THEN best.idx * 2 * denom + (a - c)
                      ELSE -(best.idx * 2 * denom + (a - c))
               den == IF denom = 0 THEN 1 ELSE 2 * Abs(denom)
               freq == (num * sampleRate * 100) \div (den * 2 * binCount)
           IN  IF freq < minFreq \/ freq > maxFreq THEN -1 ELSE freq

\* the sample rate of the AudioContext
SampleRateInput == 2000

SampleInputs == {0, 1}

\* silence, a constant level, and blocks with one or two pulses
BlockInputs ==
  UNION {{b \in [1..N -> SampleInputs] : SumSeq(b) <= 2 \/ SumSeq(b) = N} : N \in BlockLengths}

LevelInputs == {MinusInfinity, -80, -60, -40}

SpectrumInputs == [1..5 -> LevelInputs]

ConfigInputs == {DefaultOpts, TunerOpts}

\* prior smoothed values of the accept policy
PriorInputs == {0, 25000}

\* estimates around the edges of the continuity gate of a prior 250 Hz:
\* 215 and 290 Hz, their octaves, and 250 Hz and its octaves
PolicyFreqInputs ==
  {12500, 14498, 14500, 21500, 21502, 25000, 28998, 29000, 33000, 43000, 43004, 50000,
   57996, 58000}

PolicyVolumeInputs(cfg) == VolumeInputs(cfg) \cup {v - 1 : v \in VolumeInputs(cfg) \ {0}}

\* what the two estimators would return for a frame, run or not
PolicyFrameInputs(cfg) ==
  [volume : PolicyVolumeInputs(cfg),
   yin : {NoPitch} \cup [freq : {f \in {21500, 25000, 33000} : InBand(f, cfg)},
                         quality : QualityInputs(cfg)],
   fft : {-1} \cup {f \in PolicyFreqInputs : InBand(f, cfg)}]

NoAnalysis == [volume |-> -1, yin |-> NoPitch, opts |-> DefaultOpts]

\* the length of the blocks whose CMND arrays are explored
ProfileBlockLength == 14

\* sample rates of the CMND arrays explored
SampleRateInputs == {SampleRateInput, 1400}

\* CMND values around the threshold: 0, half of it, just below it, it, and 1
CmndInputs(opts) ==
  {0, opts.threshold * 5, opts.threshold * 10 - 1, opts.threshold * 10, 1000}

\* CMND arrays over minTau..maxTau; cmnd[minTau] is 1
ProfileInputs(sampleRate, opts) ==
  LET range == LagRange(ProfileBlockLength, sampleRate, opts)
  IN  {c \in [range.minTau..range.maxTau -> CmndInputs(opts)] : c[range.minTau] = 1000}

NoProfile == [cmnd |-> <<>>, sampleRate |-> 0, opts |-> DefaultOpts]

NoSelection == [tau |-> 0, yin |-> NoPitch]

NoPolicyArgs == [cfg |-> DefaultOpts, prev |-> -1, in |-> [volume |-> 0, yin |-> NoPitch, fft |-> -1]]

NoDecision == [est |-> NoPitch, detected |-> 0]

InitFrameIdle ==
  /\ block = <<>>
  /\ analysis = NoAnalysis
  /\ spectrumData = <<>>
  /\ peak = 0
  /\ profile = NoProfile
  /\ selection = NoSelection
  /\ policyArgs = NoPolicyArgs
  /\ decision = NoDecision

\* no function of the frame has been called yet
FrameIdle ==
  /\ block = <<>> /\ analysis = NoAnalysis
  /\ spectrumData = <<>> /\ peak = 0
  /\ profile = NoProfile /\ selection = NoSelection
  /\ policyArgs = NoPolicyArgs /\ decision = NoDecision

\* a block is preprocessed and handed to the primary estimator
AnalyseBlock ==
  /\ FrameIdle
  /\ \E input \in BlockInputs, opts \in ConfigInputs :
       LET processed == preprocessBuffer(input)
       IN  /\ block' = input
           /\ analysis' = [volume |-> processed.rms,
                           yin |-> yinPitchDetailed(processed.out, SampleRateInput, opts),
                           opts |-> opts]
  /\ UNCHANGED <<spectrumData, peak, profile, selection, policyArgs, decision,
                 hookVars, noteVars, cifraVars>>

\* the primary estimator from its CMND array on: threshold loop, interpolation,
\* band check and confidence
SelectLag ==
  /\ FrameIdle
  /\ \E opts \in ConfigInputs, sampleRate \in SampleRateInputs :
       \E cmnd \in ProfileInputs(sampleRate, opts) :
         LET range == LagRange(ProfileBlockLength, sampleRate, opts)
             tauEstimate == TauEstimate(cmnd, range.minTau, range.maxTau, opts.threshold)
         IN  /\ profile' = [cmnd |-> cmnd, sampleRate |-> sampleRate, opts |-> opts]
             /\ selection' =
                  [tau |-> tauEstimate,
                   yin |-> IF tauEstimate = -1 THEN NoPitch
                           ELSE EstimateAtLag(cmnd, tauEstimate, range.minTau, range.maxTau,
                                              sampleRate, opts)]
  /\ UNCHANGED <<block, analysis, spectrumData, peak, policyArgs, decision, hookVars, noteVars, cifraVars>>

\* the spectral fallback reads a spectrum
PeakOfSpectrum ==
  /\ FrameIdle
  /\ \E data \in SpectrumInputs, opts \in ConfigInputs :
       /\ spectrumData' = data
       /\ analysis' = [analysis EXCEPT !.opts = opts]
       /\ peak' = fftPeakFrequency(data, SampleRateInput, opts.minFreq, opts.maxFreq)
  /\ UNCHANGED <<block, profile, selection, policyArgs, decision, hookVars, noteVars, cifraVars>>

\* the gating of the estimators and the accept policy of one frame
DecideFrame ==
  /\ FrameIdle
  /\ \E cfg \in ConfigInputs, prev \in PriorInputs :
       \E in \in PolicyFrameInputs(cfg) :
         /\ policyArgs' = [cfg |-> cfg, prev |-> prev, in |-> in]
         /\ decision' = [est |-> Estimate(cfg, in),
                         detected |-> Detect(Estimate(cfg, in), prev, in.volume, cfg)]
  /\ UNCHANGED <<block, analysis, spectrumData, peak, profile, selection, hookVars, noteVars, cifraVars>>

(***************************************************************************)
(* The chord-chart store: IndexedDB first, localStorage as the fallback.   *)
(* A stored text is a string; a missing entry is undefined.  Each call is  *)
(* one step; whether the database opens, whether its request fails and     *)
(* whether localStorage throws are inputs of the call.                     *)
(***************************************************************************)
undefined == "undefined"

SongIdInputs == {"s1", "s2"}

\* "" is the text that `if (v)` takes for missing
CifraInputs == {"", "a", "b"}

NoCifraCall == [op |-> "none", songId |-> "", cifra |-> undefined, result |-> undefined,
                threw |-> FALSE, idbFailed |-> FALSE, lsFailed |-> FALSE]

InitCifra ==
  /\ dbPromise = "null"
  /\ idbStore = [id \in SongIdInputs |-> undefined]
  /\ localStorage = [id \in SongIdInputs |-> undefined]
  /\ cifraCall = NoCifraCall

\* the promise is made once and kept, rejected or not
openDb(promise, openFails) ==
  IF promise # "null" THEN promise
  ELSE IF openFails THEN "rejected" ELSE "resolved"

\* idbGet, idbSet and idbDel reject when the database did not open or the request fails
IdbRejects(promise, openFails, requestFails) ==
  openDb(promise, openFails) = "rejected" \/ requestFails

Truthy(v) == v # undefined /\ v # ""

\* the value getSongCifra returns
ReadCifra(idbValue, idbFailed, lsValue, lsFailed) ==
  IF ~idbFailed /\ Truthy(idbValue) THEN idbValue
  ELSE IF lsFailed THEN undefined
  ELSE lsValue

setSongCifra ==
  \E songId \in SongIdInputs, cifra \in CifraInputs,
     openFails \in BOOLEAN, requestFails \in BOOLEAN, lsFails \in BOOLEAN :
    LET idbFailed == IdbRejects(dbPromise, openFails, requestFails)
    IN  /\ dbPromise' = openDb(dbPromise, openFails)
        /\ idbStore' = IF idbFailed THEN idbStore ELSE [idbStore EXCEPT ![songId] = cifra]
        /\ localStorage' = IF lsFails THEN localStorage
                           ELSE [localStorage EXCEPT ![songId] = cifra]
        /\ cifraCall' = [op |-> "set", songId |-> songId, cifra |-> cifra,
                         result |-> undefined, threw |-> idbFailed /\ lsFails,
                         idbFailed |-> idbFailed, lsFailed |-> lsFails]
        /\ UNCHANGED <<hookVars, noteVars, frameVars>>

getSongCifra ==
  \E songId \in SongIdInputs,
     openFails \in BOOLEAN, requestFails \in BOOLEAN, lsFails \in BOOLEAN :
    LET idbFailed == IdbRejects(dbPromise, openFails, requestFails)
        fromIdb == ~idbFailed /\ Truthy(idbStore[songId])
    IN  /\ dbPromise' = openDb(dbPromise, openFails)
        /\ cifraCall' = [op |-> "get", songId |-> songId, cifra |-> undefined,
                         result |-> ReadCifra(idbStore[songId], idbFailed,
                                              localStorage[songId], lsFails),
                         threw |-> FALSE, idbFailed |-> idbFailed,
                         lsFailed |-> ~fromIdb /\ lsFails]
        /\ UNCHANGED <<idbStore, localStorage, hookVars, noteVars, frameVars>>

removeSongCifra ==
  \E songId \in SongIdInputs,
     openFails \in BOOLEAN, requestFails \in BOOLEAN, lsFails \in BOOLEAN :
    LET idbFailed == IdbRejects(dbPromise, openFails, requestFails)
    IN  /\ dbPromise' = openDb(dbPromise, openFails)
        /\ idbStore' = IF idbFailed THEN idbStore ELSE [idbStore EXCEPT ![songId] = undefined]
        /\ localStorage' = IF lsFails THEN localStorage
                           ELSE [localStorage EXCEPT ![songId] = undefined]
        /\ cifraCall' = [op |-> "remove", songId |-> songId, cifra |-> undefined,
                         result |-> undefined, threw |-> FALSE,
                         idbFailed |-> idbFailed, lsFailed |-> lsFails]
        /\ UNCHANGED <<hookVars, noteVars, frameVars>>

Init == InitHook /\ InitNoteIdle /\ InitFrameIdle /\ InitCifra

\* the hook under any caller
NextHook ==
  \/ \E opts \in StartOpts : StartListening(opts)
  \/ StartRejected
  \/ StartContextThrows
  \/ StartSourceThrows
  \/ StartResolved(LifeScope)
  \/ FrameCallback(LifeScope)
  \/ FrameSkipped
  \/ StopListening

Spec == Init /\ [][NextHook]_vars

\* one capture session of a caller that calls startListening once
NextSession ==
  \/ \E opts \in StartOpts :
       pendingStarts = 0 /\ ~state.isListening /\ lastOp = "init" /\ StartListening(opts)
  \/ StartResolved(SessionScope)
  \/ FrameCallback(SessionScope)

SpecSession == Init /\ [][NextSession]_vars

\* one capture session followed over many accepted frames, until it is stopped
NextTrack ==
  \/ \E opts \in StartOpts :
       pendingStarts = 0 /\ ~state.isListening /\ lastOp = "init" /\ StartListening(opts)
  \/ StartResolved(TrackScope)
  \/ FrameCallback(TrackScope)
  \/ state.isListening /\ StopListening

SpecTrack == Init /\ [][NextTrack]_vars

NextNote == MatchNote \/ NameNote \/ ClassifyChord \/ SearchPosition

SpecNote == Init /\ [][NextNote]_vars

NextFrame == AnalyseBlock \/ SelectLag \/ PeakOfSpectrum \/ DecideFrame

SpecFrame == Init /\ [][NextFrame]_vars

\* the chord-chart store under any sequence of calls
NextCifra == setSongCifra \/ getSongCifra \/ removeSongCifra

SpecCifra == Init /\ [][NextCifra]_vars

(***************************************************************************)
(* Claims about the lifecycle of the hook, checked under Spec.             *)
(***************************************************************************)
Stopped == lastOp \in {"stop", "stopAgain"}

\* C1: when stopListening returns (no startListening being in flight), no
\* frame callback is pending, no acquired stream has live tracks, the
\* stream, audio-context and analyser refs are null, the stabilizer is reset
\* and the published state is {isListening: false, frequency: 0, volume: 0,
\* error: null}.
StopTearsEverythingDown ==
  (Stopped /\ pendingStarts = 0) =>
    /\ scheduled = {}
    /\ liveStreams = {}
    /\ streamRef = 0 /\ audioContextRef = 0 /\ ~analyserRef
    /\ smoothedFreqRef = 0 /\ lastFreqsRef = <<>> /\ missesRef = 0
    /\ state = IdleState

\* C2: once stopListening has returned and startListening is not called
\* again, the instance holds no capture stream, runs no frame loop and
\* isListening is false, also when a startListening was suspended at
\* getUserMedia when stop was called.
StoppedStaysStopped ==
  noStartSinceStop =>
    /\ streamRef = 0
    /\ liveStreams = {}
    /\ scheduled = {}
    /\ ~state.isListening

\* C3: when startListening completes by its catch block, the error is set,
\* isListening is false, hasPermission is false, no acquired stream is left
\* unreleased and no frame callback is scheduled.
FailedStartLeavesCaptureStopped ==
  lastOp = "startFailed" =>
    /\ state.error
    /\ ~state.isListening
    /\ hasPermission = "false"
    /\ liveStreams = {}
    /\ scheduled = {}

\* everything stopListening may write, and what the host keeps for the hook
stopVars == <<state, hasPermission, audioContextRef, analyserRef, streamRef,
              animationFrameRef, bufferRef, freqDataRef, smoothedFreqRef,
              lastFreqsRef, missesRef, pitchOptsRef, liveStreams, openContexts,
              scheduled, pendingStarts, raised>>

\* C4: stopListening never raises, in any state (never started, stopped,
\* listening, start pending or failed), and a stopListening that directly
\* follows a stopListening changes nothing.
StopIsIdempotent ==
  [][/\ Stopped' => ~raised'
     /\ lastOp' = "stopAgain" => UNCHANGED stopVars]_vars

\* C4 witness: stopListening was called twice in a row on an instance that
\* was never started.
StoppedTwiceNeverStarted ==
  lastOp = "stopAgain" /\ hasPermission = "null" /\ pendingStarts = 0 /\ ~raised

\* C6: the first frame after a successful startListening finds the smoothed
\* value 0, the history empty and the miss counter 0.
StartResetsStabilizer ==
  lastOp = "started" =>
    /\ last.prev = 0
    /\ missesRef <= 1
    /\ missesRef = 0 => Len(lastFreqsRef) = 1

\* C15: in every reachable state at most one frame callback is pending and
\* at most one acquired stream is unreleased, also after startListening was
\* called twice before the first acquisition resolved or while listening.
OneCaptureSessionAtATime ==
  /\ Cardinality(scheduled) <= 1
  /\ Cardinality(liveStreams) <= 1

\* C16: the error becomes non-null only when a startListening fails, and
\* every startListening and stopListening clears it; a frame callback never
\* changes the error and never raises, it schedules the next callback, and a
\* frame that accepts nothing reports 0 or the held (decayed) value.
OnlyFailedStartSetsError ==
  [][/\ (state.error' /\ ~state.error) => lastOp' = "startFailed"
     /\ lastOp' \in {"start", "stop", "stopAgain"} => ~state.error'
     /\ lastOp' \in {"frame", "frameSkipped"} => (state.error' = state.error /\ ~raised')
     /\ lastOp' = "frame" => animationFrameRef' \in scheduled'
     /\ (lastOp' \in {"frame", "started"} /\ missesRef' > 0) =>
          state.frequency' \in {0, (smoothedFreqRef * 995) \div 1000}]_vars

\* C16 witness: a startListening that follows a failed one has cleared the
\* error.
StartClearedError ==
  lastOp = "start" /\ hasPermission = "false" /\ pendingStarts = 1 /\ ~state.error

(***************************************************************************)
(* Claims about the stabilizer, checked under SpecSession.                 *)
(***************************************************************************)
FrameRan == lastOp \in {"frame", "started"}

Accepted == FrameRan /\ missesRef = 0

\* C5 as stated: the smoothed value is 0 or within [minFreq, maxFreq].
SmoothedWithinBand ==
  smoothedFreqRef = 0 \/ InBand(smoothedFreqRef, pitchOptsRef)

\* C5 amended: the smoothed value is never negative, and it is within
\* [minFreq, maxFreq] after every frame accepted while the smoothed value was
\* 0 (the first accepted frame of a run of tracking).
FirstAcceptedWithinBand ==
  /\ smoothedFreqRef >= 0
  /\ (Accepted /\ last.prev = 0) => InBand(smoothedFreqRef, pitchOptsRef)

\* C5 witness: a first accepted frame, at the lower edge of the band.
FirstAcceptedAtBandEdge ==
  Accepted /\ last.prev = 0 /\ smoothedFreqRef = pitchOptsRef.minFreq

\* C7: with allowSoftStart, a smoothed value > 0 and RMS >= 0.7*minRms, each
\* of the first 10 consecutive missed frames reports the previous value times
\* 0.995, which is less than it and not 0; the 11th reports 0.
HoldDecaysThenClears ==
  (/\ lastOp = "frame"
   /\ pitchOptsRef.allowSoftStart
   /\ last.prev > 0
   /\ missesRef > 0
   /\ state.volume * 10 >= pitchOptsRef.minRms * 7) =>
    /\ missesRef <= 11
    /\ missesRef <= 10 =>
         /\ state.frequency = (last.prev * 995) \div 1000
         /\ state.frequency > 0
         /\ state.frequency < last.prev
    /\ missesRef = 11 => state.frequency = 0

\* C7 witness: the 11th consecutive miss of a hold, at an RMS that would
\* still hold.
HoldExpired ==
  /\ lastOp = "frame"
  /\ pitchOptsRef.allowSoftStart
  /\ last.prev > 0
  /\ missesRef = 11
  /\ state.volume * 10 >= pitchOptsRef.minRms * 7
  /\ state.frequency = 0

\* the estimate is an octave above or below f
OctaveOf(raw, f) == raw = 2 * f \/ 2 * raw = f

\* C8 as stated: an accepted frame whose raw estimate is 2f or f/2, f > 0
\* being the prior smoothed value, pushes f into the history, whether or not
\* its confidence reaches minQuality.
OctaveEstimateAcceptedAsPrior ==
  (Accepted /\ last.prev > 0 /\ OctaveOf(last.raw, last.prev)) =>
    lastFreqsRef[Len(lastFreqsRef)] = last.prev

\* C8 amended: a raw estimate of 2f or f/2 with softQuality <= confidence <
\* minQuality is accepted and f is pushed into the history; with confidence
\* >= minQuality the raw estimate itself is pushed.
SoftOctaveEstimateAcceptedAsPrior ==
  /\ (Accepted /\ last.prev > 0 /\ OctaveOf(last.raw, last.prev)) =>
       lastFreqsRef[Len(lastFreqsRef)] =
         IF last.quality >= pitchOptsRef.minQuality THEN last.raw ELSE last.prev
  /\ \A in \in FrameInputs(pitchOptsRef) :
       LET est == Estimate(pitchOptsRef, in)
       IN  (/\ smoothedFreqRef > 0
            /\ OctaveOf(est.freq, smoothedFreqRef)
            /\ est.quality >= pitchOptsRef.softQuality
            /\ est.quality < pitchOptsRef.minQuality) =>
             Detect(est, smoothedFreqRef, in.volume, pitchOptsRef) = smoothedFreqRef

\* C8 witness: an estimate of 2f below minQuality was accepted as f.
SoftOctaveAccepted ==
  /\ Accepted
  /\ last.prev > 0
  /\ last.raw = 2 * last.prev
  /\ last.quality < pitchOptsRef.minQuality
  /\ lastFreqsRef[Len(lastFreqsRef)] = last.prev

\* C22: a frame that is not accepted and fails a hold condition (no
\* allowSoftStart, or a prior smoothed value of 0, or RMS < 0.7*minRms, or a
\* miss counter above 10 after the increment) sets the smoothed value to 0,
\* empties the history and reports 0.
FailedHoldClears ==
  (/\ FrameRan
   /\ missesRef > 0
   /\ \/ ~pitchOptsRef.allowSoftStart
      \/ last.prev = 0
      \/ state.volume * 10 < pitchOptsRef.minRms * 7
      \/ missesRef > 10) =>
    /\ smoothedFreqRef = 0
    /\ lastFreqsRef = <<>>
    /\ state.frequency = 0

\* C22 witness: with allowSoftStart and a smoothed value > 0, the first miss
\* came with an RMS below 0.7*minRms and cleared the stabilizer.
QuietMissCleared ==
  /\ lastOp = "frame"
  /\ pitchOptsRef.allowSoftStart
  /\ last.prev > 0
  /\ last.hist # <<>>
  /\ missesRef = 1
  /\ state.volume * 10 < pitchOptsRef.minRms * 7
  /\ smoothedFreqRef = 0
  /\ lastFreqsRef = <<>>
  /\ state.frequency = 0

\* C27: after a frame, a smoothed value > 0 comes with a miss counter of at
\* most 10 if allowSoftStart is set and of 0 if it is not; without
\* allowSoftStart every frame that is not accepted reports 0, and a miss
\* that finds a smoothed value of 0 leaves it at 0.
HoldOnlyWithSoftStart ==
  FrameRan =>
    /\ smoothedFreqRef > 0 =>
         IF pitchOptsRef.allowSoftStart THEN missesRef <= 10 ELSE missesRef = 0
    /\ (~pitchOptsRef.allowSoftStart /\ missesRef > 0) =>
         state.frequency = 0 /\ smoothedFreqRef = 0
    /\ (last.prev = 0 /\ missesRef > 0) => smoothedFreqRef = 0

\* C27 witness: without allowSoftStart, a miss that found a smoothed value
\* > 0, at an RMS that would hold it, reported 0.
StrictMissReportedZero ==
  /\ lastOp = "frame"
  /\ ~pitchOptsRef.allowSoftStart
  /\ last.prev > 0
  /\ missesRef = 1
  /\ state.volume * 10 >= pitchOptsRef.minRms * 7
  /\ state.frequency = 0
  /\ smoothedFreqRef = 0

\* C28: without allowSoftStart, a frame that finds a smoothed value of 0 is
\* accepted only if its confidence is >= minQuality; a frame whose frequency
\* comes from the spectral fallback alone, at softQuality < minQuality,
\* leaves the smoothed value at 0 and reports 0.
StrictModeStartsHard ==
  /\ (FrameRan /\ ~pitchOptsRef.allowSoftStart /\ last.prev = 0) =>
       /\ Accepted => last.quality >= pitchOptsRef.minQuality
       /\ last.soft => (missesRef > 0 /\ smoothedFreqRef = 0 /\ state.frequency = 0)
  /\ (~pitchOptsRef.allowSoftStart /\ smoothedFreqRef = 0) =>
       \A in \in FrameInputs(pitchOptsRef) :
         (Estimate(pitchOptsRef, in).freq > 0 /\ Estimate(pitchOptsRef, in).freq = in.fft) =>
           LET r == ProcessFrame(Stabilizer, pitchOptsRef, in)
           IN  r.smoothed = 0 /\ r.nextFreq = 0

\* C28 witness: without allowSoftStart and without a smoothed value, a frame
\* with RMS >= 1.4*minRms and the fallback's frequency was not accepted.
StrictModeRejectedSoftStart ==
  /\ lastOp = "frame"
  /\ ~pitchOptsRef.allowSoftStart
  /\ last.prev = 0
  /\ last.soft
  /\ missesRef > 0
  /\ state.frequency = 0

\* C29: with allowSoftStart, frames with RMS >= 1.4*minRms and an estimate
\* with frequency > 0 and softQuality <= confidence < minQuality are rejected
\* at most 11 times in a row (10 held, 1 clearing), whatever the smoothed
\* value they start from; the next one is accepted by the bootstrap.
ReacquiredWithinTwelveFrames ==
  pitchOptsRef.allowSoftStart =>
    /\ last.run <= 11
    /\ FrameRan /\ last.run = 11 => smoothedFreqRef = 0
    /\ smoothedFreqRef = 0 =>
         \A in \in FrameInputs(pitchOptsRef) :
           LoudSoftFrame(pitchOptsRef, in) =>
             LET r == ProcessFrame(Stabilizer, pitchOptsRef, in)
             IN  r.misses = 0 /\ r.nextFreq = Estimate(pitchOptsRef, in).freq

\* C29 witness: a pitch outside the continuity gate was rejected on 11 frames
\* in a row, 10 of them held, the 11th clearing the smoothed value.
RejectedElevenInARow ==
  /\ lastOp = "frame"
  /\ pitchOptsRef.allowSoftStart
  /\ last.run = 11
  /\ missesRef = 11
  /\ last.prev > 0
  /\ smoothedFreqRef = 0

(***************************************************************************)
(* Claims about long runs of tracking, checked under SpecTrack.            *)
(***************************************************************************)
\* the k-th smallest value of a sequence
KthSmallest(h, k) ==
  CHOOSE v \in {h[i] : i \in 1..Len(h)} :
    /\ Cardinality({i \in 1..Len(h) : h[i] < v}) < k
    /\ Cardinality({i \in 1..Len(h) : h[i] <= v}) >= k

\* the middle value of a sequence, the mean of the two middle ones if its
\* length is even
MiddleOf(h) == (KthSmallest(h, (Len(h) + 1) \div 2) + KthSmallest(h, Len(h) \div 2 + 1)) \div 2

\* C21: an accepted frame sets the miss counter to 0 and the smoothed value
\* to prev*(1-a) + m*a: m is the median of the history after the push, or the
\* one of {m, m/2, 2m} closest to the prior smoothed value if that is > 0;
\* prev is the prior smoothed value, or m if it was 0; a is 0.08 if m/prev >
\* 1.18 or < 0.85, else 0.18.  The first accepted frame after idle reports
\* the accepted frequency, and the result lies between prev and m.
AcceptBlendsTowardsMedian ==
  Accepted =>
    LET med == MiddleOf(lastFreqsRef)
        prior == last.prev
        candidates == {med, med \div 2, 2 * med}
        closest == {c \in candidates : \A o \in candidates : Abs(c - prior) <= Abs(o - prior)}
        blended(m) ==
          LET prev == IF prior > 0 THEN prior ELSE m
              a == IF m * 100 > 118 * prev \/ m * 100 < 85 * prev THEN 8 ELSE 18
          IN  [value |-> (prev * (100 - a) + m * a) \div 100,
               lo |-> IF prev < m THEN prev ELSE m,
               hi |-> IF prev < m THEN m ELSE prev]
    IN  /\ missesRef = 0
        /\ \E m \in (IF prior > 0 THEN closest ELSE {med}) :
             /\ smoothedFreqRef = blended(m).value
             /\ smoothedFreqRef >= blended(m).lo
             /\ smoothedFreqRef <= blended(m).hi
        /\ state.frequency = smoothedFreqRef
        /\ prior = 0 => state.frequency = last.detected

\* C21 witness: with a full history whose median 330 Hz is not the frequency
\* just pushed, an accepted frame moved the smoothed value by a small step
\* towards 165 Hz, the octave of the median closest to it.
BlendedWithFullHistory ==
  /\ Accepted
  /\ Len(lastFreqsRef) = 5
  /\ last.detected = 22000
  /\ MiddleOf(lastFreqsRef) = 33000
  /\ last.prev > 16500
  /\ 16500 * 100 < 85 * last.prev
  /\ smoothedFreqRef = (last.prev * 92 + 16500 * 8) \div 100

\* C26: after every frame and after stopListening the history holds at most
\* 5 values, the most recent accepted frequencies in the order of their
\* acceptance (an accepted frame appends its frequency and evicts the oldest
\* value beyond 5; a miss keeps the history or empties it); the history is
\* empty exactly when the smoothed value is 0; the published frequency is the
\* smoothed value.
HistoryIsRecentAccepted ==
  /\ Len(lastFreqsRef) <= 5
  /\ (lastFreqsRef = <<>>) <=> (smoothedFreqRef = 0)
  /\ state.frequency = smoothedFreqRef
  /\ Accepted =>
       LET all == last.hist \o <<last.detected>>
           n == Len(all)
       IN  /\ last.detected > 0
           /\ lastFreqsRef = [i \in 1..(IF n > 5 THEN 5 ELSE n) |-> all[i + (IF n > 5 THEN n - 5 ELSE 0)]]
  /\ (FrameRan /\ missesRef > 0) => (lastFreqsRef = last.hist \/ lastFreqsRef = <<>>)
  /\ (Stopped /\ ~raised) => lastFreqsRef = <<>>

\* C26 witness: the sixth accepted frequency in a row evicted the oldest one.
OldestEvicted ==
  /\ Accepted
  /\ accepts = 6
  /\ Len(last.hist) = 5
  /\ last.hist[1] # last.hist[2]
  /\ lastFreqsRef = <<last.hist[2], last.hist[3], last.hist[4], last.hist[5], last.detected>>

(***************************************************************************)
(* Claims about the classifier, checked under SpecNote.                    *)
(***************************************************************************)
\* C9: isNoteMatch returns 'wrong' for detected <= 0; otherwise, with c the
\* absolute distance in cents, 'correct' iff c <= tolerance/2, 'close' iff
\* tolerance/2 < c <= tolerance, 'wrong' iff c > tolerance.
NoteMatchBoundaries ==
  verdict # "none" =>
    LET c == Abs(detectedFrequency.cc - expectedFrequency.cc)
        half == toleranceCents * 50
        whole == toleranceCents * 100
    IN  IF detectedFrequency.sign <= 0
          THEN verdict = "wrong"
          ELSE /\ verdict = "correct" <=> c <= half
               /\ verdict = "close" <=> (half < c /\ c <= whole)
               /\ verdict = "wrong" <=> c > whole

\* C9 witness: a detected frequency exactly 50 cents from the target is
\* 'close' at tolerance 50.
CloseAtTolerance ==
  /\ verdict = "close"
  /\ toleranceCents = 50
  /\ detectedFrequency.sign > 0
  /\ Abs(detectedFrequency.cc - expectedFrequency.cc) = 5000

Named == noteInfo.note \notin {"none", "-"}

\* C10 as stated: the cents offset of a named frequency is in (-50, 50].
NoteCentsHalfOpen == Named => noteInfo.cents \in -49..50

\* C10 amended: the cents offset of a named frequency is an integer in
\* [-50, 50], both ends included.
NoteCentsClosed == Named => noteInfo.cents \in -50..50

\* C10 witness: a frequency named with a cents offset of -50.
NoteCentsMinusFifty == Named /\ noteInfo.cents = -50

\* the place of a note name in the chromatic table, from 0
IndexOfName(name) == CHOOSE i \in 0..11 : NOTE_NAMES[i + 1] = name

\* the equal-tempered frequency C0 * 2^((12*octave + index(name))/12)
TemperedFrequency(name, octave) == Hz((12 * octave + IndexOfName(name)) * 10000)

\* C11: naming a frequency f, then naming the equal-tempered frequency of
\* the name and octave obtained, gives the same name and the same octave.
NoteNamingRoundTrip ==
  Named =>
    LET again == getNoteFromFrequency(TemperedFrequency(noteInfo.note, noteInfo.octave))
    IN  again.note = noteInfo.note /\ again.octave = noteInfo.octave

\* C11 witness: a frequency 50 cents below C4 is named C with octave 3.
NamedAcrossOctaveBoundary ==
  /\ Named
  /\ detectedFrequency = Hz(475000)
  /\ noteInfo.note = "C"
  /\ noteInfo.octave = 3

\* C24: the name and octave returned for a frequency f > 0 denote the
\* semitone nearest to f: 12*octave + index(name) = round(12*log2(f/C0)).
NameDenotesNearestSemitone ==
  (Named /\ detectedFrequency.sign > 0) =>
    \E n \in -4..80 :
      /\ 10000 * n - 5000 <= detectedFrequency.cc
      /\ detectedFrequency.cc < 10000 * n + 5000
      /\ 12 * noteInfo.octave + IndexOfName(noteInfo.note) = n

\* the positions of a chord whose status is a verdict
Judged == {k \in DOMAIN statuses : statuses[k] # "waiting"}

\* the expected frequency of the position with key k
ExpectedOf(k) == getFrequencyForPosition(chordArgs.ukuleleType, 3 - k[1], k[2])

\* the place of the first position of the chord with key k
PlaceOf(k) ==
  CHOOSE i \in 1..Len(chordArgs.positions) :
    /\ <<chordArgs.positions[i].string, chordArgs.positions[i].fret>> = k
    /\ \A j \in 1..(i - 1) :
         <<chordArgs.positions[j].string, chordArgs.positions[j].fret>> # k

\* C12: with practice on, listening, frequency > 0 and a non-empty position
\* list, exactly one position has a verdict: the first of the list among
\* those at the minimum distance in cents, with the verdict of isNoteMatch at
\* the default tolerance; otherwise every position is 'waiting'.
BestOfManyMatching ==
  LET live == /\ chordArgs.practiceOn /\ chordArgs.isListening
              /\ detectedFrequency.sign > 0 /\ Len(chordArgs.positions) > 0
      dist(k) == Abs(detectedFrequency.cc - ExpectedOf(k).cc)
  IN  /\ DOMAIN statuses = KeysOf(chordArgs.positions)
      /\ ~live => Judged = {}
      /\ live =>
           /\ Cardinality(Judged) = 1
           /\ \A k \in Judged :
                /\ \A other \in DOMAIN statuses :
                     \/ dist(k) < dist(other)
                     \/ dist(k) = dist(other) /\ PlaceOf(k) <= PlaceOf(other)
                /\ statuses[k] = (IF dist(k) <= 2500 THEN "correct"
                                  ELSE IF dist(k) <= 5000 THEN "close" ELSE "wrong")

\* C12 witness: the E chord with a frequency midway between its two B4: the
\* G string's position, first in the list, is 'correct', the others wait.
FirstOfTiedPositionsJudged ==
  /\ Len(chordArgs.positions) = 4
  /\ detectedFrequency = Hz(590001)
  /\ statuses[<<3, 4>>] = "correct"
  /\ statuses[<<0, 2>>] = "waiting"

\* every (string, fret) combination of the search
Combinations == (0..3) \X (0..searchArgs.maxFret)

\* C13: findMatchingPosition returns null iff no combination is within the
\* tolerance; otherwise the first, in string-then-fret order, of the
\* combinations at the minimum distance, 'correct' iff within half the
\* tolerance, else 'close', as isNoteMatch judges that position.
BestPositionSearch ==
  searchArgs # NoSearch =>
    LET dist(c) == Abs(detectedFrequency.cc
                       - getFrequencyForPosition(searchArgs.ukuleleType, c[1], c[2]).cc)
        within == {c \in Combinations :
                     detectedFrequency.sign > 0 /\ dist(c) <= toleranceCents * 100}
        c == <<found.string, found.fret>>
    IN  /\ found = NoPosition <=> within = {}
        /\ found # NoPosition =>
             /\ c \in within
             /\ \A o \in within :
                  \/ dist(c) < dist(o)
                  \/ dist(c) = dist(o) /\ (c[1] < o[1] \/ (c[1] = o[1] /\ c[2] <= o[2]))
             /\ found.match = (IF dist(c) * 2 <= toleranceCents * 100 THEN "correct" ELSE "close")
             /\ found.match = isNoteMatch(detectedFrequency,
                                getFrequencyForPosition(searchArgs.ukuleleType, c[1], c[2]),
                                toleranceCents)

\* C13 witness: a frequency midway between C5 on the G string (fret 5) and
\* C5 on the A string (fret 3) is found on the G string.
FirstOfTiedCombinationsFound ==
  /\ searchArgs = [ukuleleType |-> "soprano", maxFret |-> 5]
  /\ detectedFrequency = Hz(600001)
  /\ found = [string |-> 0, fret |-> 5, match |-> "correct"]

(***************************************************************************)
(* Claims about the signal path and the accept policy of a frame, checked  *)
(* under SpecFrame.                                                        *)
(***************************************************************************)
\* C14: for an all-zero block the RMS is 0 and the primary estimator returns
\* no pitch, for a spectrum without energy the fallback returns none, and a
\* frame made of these is accepted under no prior value.
SilenceYieldsNoPitch ==
  /\ (block # <<>> /\ \A i \in 1..Len(block) : block[i] = 0) =>
       /\ analysis.volume = 0
       /\ analysis.yin = [freq |-> -1, quality |-> 0]
       /\ \A prev \in PriorInputs :
            LET silent == [volume |-> analysis.volume, yin |-> analysis.yin,
                           fft |-> fftPeakFrequency([i \in 1..5 |-> MinusInfinity],
                                     SampleRateInput, analysis.opts.minFreq,
                                     analysis.opts.maxFreq)]
            IN  Detect(Estimate(analysis.opts, silent), prev, 0, analysis.opts) = -1
  /\ (spectrumData # <<>> /\ \A i \in 1..Len(spectrumData) : spectrumData[i] = MinusInfinity) =>
       peak = -1

\* C14 witness: an all-zero block of 14 samples was analysed.
SilentBlockAnalysed ==
  /\ block = [i \in 1..14 |-> 0]
  /\ analysis.volume = 0
  /\ analysis.yin = NoPitch

Decided == policyArgs.prev >= 0

\* C17: an estimate with frequency > 0 and confidence >= minQuality is
\* accepted with its raw frequency, whatever the prior smoothed value,
\* allowSoftStart and the volume.
HardAcceptKeepsRaw ==
  (Decided /\ decision.est.freq > 0 /\ decision.est.quality >= policyArgs.cfg.minQuality) =>
    decision.detected = decision.est.freq

\* C17 witness: a confident estimate of 330 Hz, outside the continuity gate
\* of the prior 250 Hz, was accepted without allowSoftStart.
HardAcceptedOutsideGate ==
  /\ Decided
  /\ policyArgs.prev = 25000
  /\ ~policyArgs.cfg.allowSoftStart
  /\ decision.est.freq = 33000
  /\ decision.detected = 33000

\* C18: with softQuality <= confidence < minQuality and a prior value p > 0,
\* the candidate c of {f, f/2, 2f} closest to p is accepted iff
\* 0.86 < c/p < 1.16; otherwise the frame is a miss, whatever allowSoftStart
\* and the volume.
ContinuityGateExclusive ==
  (/\ Decided
   /\ policyArgs.prev > 0
   /\ decision.est.freq > 0
   /\ decision.est.quality >= policyArgs.cfg.softQuality
   /\ decision.est.quality < policyArgs.cfg.minQuality) =>
    LET f == decision.est.freq
        p == policyArgs.prev
        candidates == {f, f \div 2, 2 * f}
        closest == {c \in candidates : \A o \in candidates : Abs(c - p) <= Abs(o - p)}
        passing == {c \in closest : 86 * p < 100 * c /\ 100 * c < 116 * p}
    IN  IF passing # {} THEN decision.detected \in passing ELSE decision.detected = -1

\* C18 witness: a weak estimate of 430 Hz, whose octave 215 Hz is at 0.86
\* of the prior 250 Hz, was a miss with allowSoftStart at a high volume.
RejectedAtGateEdge ==
  /\ Decided
  /\ policyArgs.prev = 25000
  /\ policyArgs.cfg.allowSoftStart
  /\ policyArgs.in.volume * 10 >= policyArgs.cfg.minRms * 14
  /\ decision.est.freq = 43000
  /\ decision.est.quality = policyArgs.cfg.softQuality
  /\ decision.detected = -1

EstimatorGating ==
  Decided =>
    LET in == policyArgs.in
        cfg == policyArgs.cfg
        primary == IF in.volume >= cfg.minRms THEN in.yin ELSE [freq |-> -1, quality |-> 0]
        fallbackRuns == /\ primary.freq <= 0 \/ primary.quality < cfg.softQuality
                        /\ in.volume * 10 >= cfg.minRms * 13
    IN  /\ decision.est =
             (IF fallbackRuns /\ in.fft > 0
                THEN [freq |-> in.fft,
                      quality |-> IF primary.quality >= cfg.softQuality
                                    THEN primary.quality ELSE cfg.softQuality]
                ELSE primary)
        /\ in.volume < cfg.minRms => decision.detected = -1

\* C20 witness: at RMS = 1.3*minRms the primary estimator ran and found no
\* pitch, and the fallback's frequency became the estimate at softQuality.
FallbackReplacedMissingPrimary ==
  /\ Decided
  /\ policyArgs.in.volume * 10 = policyArgs.cfg.minRms * 13
  /\ policyArgs.in.yin = NoPitch
  /\ policyArgs.in.fft > 0
  /\ decision.est = [freq |-> policyArgs.in.fft, quality |-> policyArgs.cfg.softQuality]

\* the CMND array of the analysed block, in 1/1000
AnalysedCmnd ==
  LET x == preprocessBuffer(block).out
      range == LagRange(Len(block), SampleRateInput, analysis.opts)
      d(tau) == SumSeq([i \in 1..(Len(block) \div 2) |-> (x[i] - x[i + tau]) * (x[i] - x[i + tau])])
      total(tau) == SumSeq([j \in 1..(tau - range.minTau + 1) |-> d(range.minTau + j - 1)])
  IN  [tau \in range.minTau..range.maxTau |->
         IF tau = range.minTau \/ total(tau) = 0 THEN 1000
         ELSE (d(tau) * tau * 1000) \div total(tau)]

\* the lags of (minTau, maxTau] whose CMND is below the threshold
LagsBelow(c, range, opts) ==
  {t \in (range.minTau + 1)..range.maxTau : c[t] < opts.threshold * 10}

\* the first local minimum of the CMND at or after the first lag below the
\* threshold; -1 if no lag is below it
SelectedLag(c, range, opts) ==
  LET below == LagsBelow(c, range, opts)
      first == CHOOSE t \in below : \A o \in below : t <= o
      LocalMinimum(t) == c[t - 1] >= c[t] /\ (t = range.maxTau \/ c[t + 1] >= c[t])
  IN  IF below = {} THEN -1
      ELSE CHOOSE t \in first..range.maxTau :
             LocalMinimum(t) /\ \A u \in first..(t - 1) : ~LocalMinimum(u)

\* r is a result the primary estimator may return for the CMND array c
PrimaryResult(r, c, range, opts) ==
  /\ \/ r = [freq |-> -1, quality |-> 0]
     \/ /\ r.freq >= opts.minFreq /\ r.freq <= opts.maxFreq
        /\ r.quality >= 0 /\ r.quality <= 100
  /\ LagsBelow(c, range, opts) = {} => r = [freq |-> -1, quality |-> 0]
  /\ r.freq > 0 =>
       /\ SelectedLag(c, range, opts) # -1
       /\ LET conf == (1000 - c[SelectedLag(c, range, opts)]) \div 10
          IN  r.quality = (IF conf < 0 THEN 0 ELSE IF conf > 100 THEN 100 ELSE conf)

\* C23: a result of the primary estimator is no pitch (frequency <= 0,
\* confidence 0) or a frequency within [minFreq, maxFreq] with confidence
\* clamp(1 - cmnd(selected lag), 0, 1); it is no pitch whenever no lag of
\* (minTau, maxTau] has a CMND below the threshold (so also when the range is
\* empty or the running sum is 0); the selected lag is the first local
\* minimum at or after the first lag below the threshold.
PrimaryEstimatorResult ==
  /\ block # <<>> =>
       PrimaryResult(analysis.yin, AnalysedCmnd,
                     LagRange(Len(block), SampleRateInput, analysis.opts), analysis.opts)
  /\ profile # NoProfile =>
       LET range == LagRange(ProfileBlockLength, profile.sampleRate, profile.opts)
       IN  /\ PrimaryResult(selection.yin, profile.cmnd, range, profile.opts)
           /\ selection.tau = SelectedLag(profile.cmnd, range, profile.opts)

\* C23 witness: the CMND kept falling after the first lag below the
\* threshold, and a pitch was estimated at the later local minimum.
DescendedToLocalMinimum ==
  /\ profile # NoProfile
  /\ selection.yin.freq > 0
  /\ selection.tau > 3
  /\ profile.cmnd[selection.tau - 1] < profile.opts.threshold * 10
  /\ profile.cmnd[selection.tau] < profile.cmnd[selection.tau - 1]
  /\ selection.yin.quality = (1000 - profile.cmnd[selection.tau]) \div 10

\* C25: a pitch returned by the primary estimator has a confidence strictly
\* above 1 - threshold, the CMND of the selected lag being below the
\* threshold; every configuration the callers pass has minQuality <= 1 -
\* threshold, so a primary detection is accepted outright, and a frame
\* accepted through the continuity gate or the bootstrap carries the
\* frequency of the spectral fallback.
PrimaryDetectionIsConfident ==
  /\ \A cfg \in ConfigInputs :
       cfg.threshold > 0 /\ cfg.threshold <= 100 /\ cfg.minQuality <= 100 - cfg.threshold
  /\ (block # <<>> /\ analysis.yin.freq > 0) =>
       LET range == LagRange(Len(block), SampleRateInput, analysis.opts)
           sel == SelectedLag(AnalysedCmnd, range, analysis.opts)
       IN  /\ 1000 - AnalysedCmnd[sel] > 1000 - 10 * analysis.opts.threshold
           /\ analysis.yin.quality >= 100 - analysis.opts.threshold
           /\ analysis.yin.quality >= analysis.opts.minQuality
  /\ (profile # NoProfile /\ selection.yin.freq > 0) =>
       /\ 1000 - profile.cmnd[selection.tau] > 1000 - 10 * profile.opts.threshold
       /\ selection.yin.quality >= 100 - profile.opts.threshold
       /\ selection.yin.quality >= profile.opts.minQuality
  /\ Decided =>
       LET in == policyArgs.in
           cfg == policyArgs.cfg
           primaryRan == in.volume >= cfg.minRms
       IN  /\ (primaryRan /\ in.yin.freq > 0) => decision.detected = in.yin.freq
           /\ (decision.detected > 0 /\ decision.est.quality < cfg.minQuality) =>
                /\ ~(primaryRan /\ in.yin.freq > 0)
                /\ decision.est.freq = in.fft

\* C25 witness: a pitch was estimated at a lag whose CMND is just below the
\* threshold; its confidence is the lowest the estimator can return.
DetectedJustBelowThreshold ==
  /\ profile # NoProfile
  /\ selection.yin.freq > 0
  /\ profile.cmnd[selection.tau] = 10 * profile.opts.threshold - 1
  /\ selection.yin.quality = 100 - profile.opts.threshold

(***************************************************************************)
(* The chord-chart store.                                                  *)
(***************************************************************************)

\* C30: a getSongCifra(id) that follows a setSongCifra(id, c) which did not
\* throw (c non-empty) returns c, also when c reached only localStorage while
\* IndexedDB keeps an older text; and a getSongCifra(id) that follows a
\* removeSongCifra(id) returns undefined.  The reads of the getSongCifra
\* considered here do not fail.
ReadYourWrite ==
  [][/\ cifraCall'.op = "get" /\ cifraCall'.songId = cifraCall.songId
     /\ ~cifraCall'.idbFailed /\ ~cifraCall'.lsFailed =>
       /\ cifraCall.op = "set" /\ ~cifraCall.threw /\ cifraCall.cifra # ""
            => cifraCall'.result = cifraCall.cifra
       /\ cifraCall.op = "remove" => cifraCall'.result = undefined]_vars

============================================================================
